---- MODULE Spec2Model ----
(***************************************************************************)
(* Packer (src/src/Packer.ts): pack reads a file line by line; every line  *)
(* is parsed into a package (capacity plus items) and solved as a 0/1      *)
(* knapsack by a memoized recursion over a lazily filled cost board,       *)
(* followed by a back-trace that collects the indices of the chosen items. *)
(*                                                                         *)
(* Numbers.  Item weights are JavaScript numbers and may be fractional;    *)
(* they are kept here as integers counted in units of 1/Scale, so that     *)
(* Math.round acts on them as it does in the program.  Capacities index    *)
(* the cost board and are whole numbers.  Prices are whole numbers (the    *)
(* inexactness of floating-point sums of fractional prices is not          *)
(* modelled).  A text field that Number() turns into NaN is the token NaN. *)
(* Lines are modelled after tokenisation: every data line holds a colon    *)
(* and every non-empty item string holds its three fields.                 *)
(***************************************************************************)
EXTENDS Integers, Sequences, FiniteSets, TLC

\* ------------------------------------------------------------------ bounds
\* weights are counted in units of 1/Scale
Scale == 4
\* most item strings on a line of the single-line files
MaxItems == 3
\* most lines of a multi-line file
MaxLines == 3

\* weights (in 1/Scale units), prices and capacities of the single-line files
Weights == {2, 3, 6}
Prices == {0, 1, 2}
Capacities == {1, 2}

VARIABLES
    file,        \* lines the reader has not yet emitted
    mayFail,     \* the read stream of this file emits 'error' at some point
    fed,         \* lines emitted so far, in order (history)
    evlog,       \* 'error' and 'close' events delivered so far, in order (history)
    result,      \* readAndProcessFilePerline: result
    promise,     \* state of the promise of readAndProcessFilePerline
    reason,      \* what the promise was rejected with
    outcome,     \* how pack ended: None, a returned string or a thrown error
    phase,       \* position of the 'line' handler: idle, calc, trace
    items,       \* processPackage: items, after the sort
    maxWeight,   \* processPackage: maxWeight
    costBoard,   \* processPackage: costBoard; its domain is the set of assigned cells
    stack,       \* calculatePackageCost: the activation records, innermost first
    ret,         \* calculatePackageCost: the value the last return delivered
    cost,        \* getPackagedItemsIndex: cost
    weight,      \* getPackagedItemsIndex: weight
    i,           \* getPackagedItemsIndex: i
    itemsIndex,  \* getPackagedItemsIndex: itemsIndex
    picked,      \* sorted positions of the items collected by the back-trace (history)
    writes,      \* number of assignments made to each cost board cell (history)
    solved       \* the last line's package has been solved and rendered

vars == <<file, mayFail, fed, evlog, result, promise, reason, outcome, phase, items,
          maxWeight, costBoard, stack, ret, cost, weight, i, itemsIndex, picked,
          writes, solved>>

engine == <<phase, items, maxWeight, costBoard, stack, ret, cost, weight, i,
            itemsIndex, picked, writes, solved>>

\* ------------------------------------------------------------ text fields
\* a numeric text field after Number(): NaN or a number
NaN == [nan |-> TRUE, val |-> 0]
Num(n) == [nan |-> FALSE, val |-> n]

\* the item string "" (what split(' ') yields for an empty item list)
EmptyItemString == [empty |-> TRUE, index |-> NaN, weight |-> NaN, price |-> NaN]
ItemString(ix, w, p) == [empty |-> FALSE, index |-> ix, weight |-> w, price |-> p]

BlankLine == [blank |-> TRUE, weight |-> NaN, items |-> <<>>]
DataLine(w, its) == [blank |-> FALSE, weight |-> w, items |-> its]

\* ------------------------------------------------------------- strings
\* a string is the sequence of its characters
Digits == <<"0", "1", "2", "3", "4", "5", "6", "7", "8", "9">>

RECURSIVE DecStr(_)
\* Number.prototype.toString of a non-negative integer
DecStr(n) == IF n < 10 THEN <<Digits[n + 1]>>
             ELSE DecStr(n \div 10) \o <<Digits[(n % 10) + 1]>>

RECURSIVE JoinStrings(_, _)
\* Array.prototype.join on an array of strings
JoinStrings(strs, sep) ==
    IF strs = <<>> THEN <<>>
    ELSE IF Len(strs) = 1 THEN strs[1]
    ELSE strs[1] \o sep \o JoinStrings(Tail(strs), sep)

RECURSIVE NumStrings(_)
NumStrings(nums) == IF nums = <<>> THEN <<>>
                    ELSE <<DecStr(nums[1])>> \o NumStrings(Tail(nums))

\* ------------------------------------------------------------- parsing
\* parsePackageItemString: null is the empty sequence, an item a one-element sequence
parsePackageItemString(itemString) ==
    IF itemString.empty THEN <<>>
    ELSE IF itemString.index.nan \/ itemString.weight.nan \/ itemString.price.nan
         THEN <<>>
         ELSE <<[index |-> itemString.index.val,
                 weight |-> itemString.weight.val,
                 price |-> itemString.price.val]>>

RECURSIVE parseItems(_)
\* the loop of parseFileLine over the item strings
parseItems(strs) ==
    IF strs = <<>> THEN <<>>
    ELSE parsePackageItemString(strs[1]) \o parseItems(Tail(strs))

parseFileLine(line) ==
    IF line.blank THEN [weight |-> 0, items |-> <<>>]
    ELSE IF line.weight.nan \/ line.weight.val < 1 THEN [weight |-> 0, items |-> <<>>]
    ELSE [weight |-> line.weight.val, items |-> parseItems(line.items)]

\* ------------------------------------------------------------- sorting
RECURSIVE InsertByWeight(_, _)
\* insert it after every element that is not heavier: a stable insertion
InsertByWeight(sorted, it) ==
    IF sorted = <<>> THEN <<it>>
    ELSE IF sorted[1].weight <= it.weight
         THEN <<sorted[1]>> \o InsertByWeight(Tail(sorted), it)
         ELSE <<it>> \o sorted

RECURSIVE SortByWeight(_)
\* items.sort((item1, item2) => item1.weight - item2.weight), a stable sort
SortByWeight(its) ==
    IF its = <<>> THEN <<>>
    ELSE InsertByWeight(SortByWeight(SubSeq(its, 1, Len(its) - 1)), its[Len(its)])

RECURSIVE InsertNumber(_, _)
InsertNumber(sorted, n) ==
    IF sorted = <<>> THEN <<n>>
    ELSE IF sorted[1] <= n
         THEN <<sorted[1]>> \o InsertNumber(Tail(sorted), n)
         ELSE <<n>> \o sorted

RECURSIVE SortNumbers(_)
\* itemsIndex.sort((indx1, indx2) => indx1 - indx2)
SortNumbers(nums) ==
    IF nums = <<>> THEN <<>>
    ELSE InsertNumber(SortNumbers(SubSeq(nums, 1, Len(nums) - 1)), nums[Len(nums)])

\* ------------------------------------------------------------- arithmetic
\* Math.round of x / Scale: the nearest integer, a half rounding up
Round(x) == (2 * x + Scale) \div (2 * Scale)

Max(a, b) == IF a >= b THEN a ELSE b

\* ------------------------------------------------------------- cost board
\* costBoard[k][w] !== undefined
Filled(k, w) == <<k, w>> \in DOMAIN costBoard

\* costBoard[k][w] = v
Store(board, k, w, v) ==
    [c \in DOMAIN board \cup {<<k, w>>} |-> IF c = <<k, w>> THEN v ELSE board[c]]

Counted(k, w) ==
    [c \in DOMAIN writes \cup {<<k, w>>} |->
        IF c = <<k, w>> THEN (IF c \in DOMAIN writes THEN writes[c] + 1 ELSE 1)
        ELSE writes[c]]

\* a board none of whose cells has been assigned
EmptyBoard == [c \in {} |-> 0]

\* the board of the package before is kept: no fresh allocation
StaleBoard(n, cap) == costBoard

\* new Array(items.length + 1), each row new Array(maxWeight + 1): no cell assigned
NewBoard(n, cap) == EmptyBoard

\* the memo test left out: every request recomputes
NeverCalculated(k, w) == FALSE

\* line 201: costBoard[currentItemIndex][packageWeight] !== undefined
Calculated(k, w) == Filled(k, w)

\* ------------------------------------------------------------- the files
None == [kind |-> "none", name |-> "", value |-> <<>>]

RECURSIVE SeqsUpTo(_, _)
\* the sequences over S of length at most n
SeqsUpTo(S, n) ==
    IF n = 0 THEN {<<>>}
    ELSE LET shorter == SeqsUpTo(S, n - 1)
         IN shorter \cup {Append(s, x) : s \in {t \in shorter : Len(t) = n - 1}, x \in S}

\* the item strings of a line whose k-th item carries the index k; a line without
\* items splits into the single item string ""
Indexed(wps) ==
    IF wps = <<>> THEN <<EmptyItemString>>
    ELSE [k \in 1..Len(wps) |-> ItemString(Num(k), Num(wps[k][1]), Num(wps[k][2]))]

\* files of one line: every capacity, up to MaxItems items in every input order
SingleLines ==
    {DataLine(Num(c), Indexed(wps)) : c \in Capacities,
                                      wps \in SeqsUpTo(Weights \X Prices, MaxItems)}

\* files of one line whose two items both fit and carry arbitrary indices,
\* equal ones included
Indices == {2, 7, 12}
IndexLines ==
    {DataLine(Num(1), <<ItemString(Num(a), Num(2), Num(1)),
                        ItemString(Num(b), Num(2), Num(1))>>) : a, b \in Indices}

\* the lines of the files of several lines: blank, capacity non-numeric, zero or
\* negative, no item, an item that fits, an item too heavy, a malformed item,
\* an item that weighs nothing beside one lighter than half a unit
LightItem == ItemString(Num(1), Num(2), Num(1))
HeavyItem == ItemString(Num(1), Num(6), Num(2))
BadItem == ItemString(Num(1), NaN, Num(1))
WeightlessItem == ItemString(Num(1), Num(0), Num(1))
ShortLines ==
    {BlankLine}
    \cup {DataLine(c, <<LightItem>>) : c \in {NaN, Num(0), Num(-1)}}
    \cup {DataLine(Num(1), its) :
             its \in {<<EmptyItemString>>, <<LightItem>>, <<HeavyItem>>,
                      <<BadItem, ItemString(Num(2), Num(2), Num(2))>>,
                      <<WeightlessItem, ItemString(Num(2), Num(1), Num(2))>>}}

\* error.message of the error the read stream emits
ErrorMessage == <<"E", "N", "O", "E", "N", "T">>

Init ==
    /\ \/ /\ file \in {<<l>> : l \in SingleLines \cup IndexLines}
          /\ mayFail = FALSE
       \/ /\ file \in SeqsUpTo(ShortLines, MaxLines)
          /\ mayFail \in BOOLEAN
    /\ fed = <<>>
    /\ evlog = <<>>
    /\ result = <<>>
    /\ promise = "pending"
    /\ reason = <<>>
    /\ outcome = None
    /\ phase = "idle"
    /\ items = <<>>
    /\ maxWeight = 0
    /\ costBoard = EmptyBoard
    /\ stack = <<>>
    /\ ret = 0
    /\ cost = 0
    /\ weight = 0
    /\ i = 0
    /\ itemsIndex = <<>>
    /\ picked = {}
    /\ writes = EmptyBoard
    /\ solved = FALSE

Delivered(ev) == \E e \in DOMAIN evlog : evlog[e] = ev

\* no handler is running and no continuation of a settled promise is waiting
Quiet == phase = "idle" /\ (promise = "pending" \/ outcome # None)

Frame(k, w) == [k |-> k, w |-> w, pc |-> "enter", costWithoutItem |-> 0]

\* ------------------------------------------------------------- the 'line' handler
\* fileReader.on('line'): parseFileLine, then processPackage up to its call of
\* calculatePackageCost(items, items.length, maxWeight, costBoard)
OnLine ==
    /\ Quiet
    /\ file # <<>>
    /\ ~Delivered("close")
    /\ LET pkg == parseFileLine(file[1])
           sorted == SortByWeight(pkg.items)
       IN /\ items' = sorted
          /\ maxWeight' = pkg.weight
          /\ costBoard' = NewBoard(Len(sorted), pkg.weight)
          /\ stack' = <<Frame(Len(sorted), pkg.weight)>>
    /\ writes' = EmptyBoard
    /\ phase' = "calc"
    /\ solved' = FALSE
    /\ picked' = {}
    /\ fed' = Append(fed, file[1])
    /\ file' = Tail(file)
    /\ UNCHANGED <<mayFail, evlog, result, promise, reason, outcome, ret, cost, weight,
                   i, itemsIndex>>

Top == stack[1]

\* calculatePackageCost, lines 195-198: the base check
CalcBase ==
    /\ phase = "calc" /\ stack # <<>> /\ Top.pc = "enter"
    /\ Top.k = 0 \/ Top.w = 0
    /\ costBoard' = Store(costBoard, Top.k, Top.w, 0)
    /\ writes' = Counted(Top.k, Top.w)
    /\ ret' = 0
    /\ stack' = Tail(stack)
    /\ UNCHANGED <<file, mayFail, fed, evlog, result, promise, reason, outcome, phase,
                   items, maxWeight, cost, weight, i, itemsIndex, picked, solved>>

\* calculatePackageCost, lines 201-203: the cost was calculated before
CalcMemo ==
    /\ phase = "calc" /\ stack # <<>> /\ Top.pc = "enter"
    /\ ~(Top.k = 0 \/ Top.w = 0)
    /\ Calculated(Top.k, Top.w)
    /\ ret' = costBoard[<<Top.k, Top.w>>]
    /\ stack' = Tail(stack)
    /\ UNCHANGED <<file, mayFail, fed, evlog, result, promise, reason, outcome, phase,
                   items, maxWeight, costBoard, cost, weight, i, itemsIndex, picked,
                   writes, solved>>

\* calculatePackageCost, lines 206-211: the call for the cost without the item
CalcWithout ==
    /\ phase = "calc" /\ stack # <<>> /\ Top.pc = "enter"
    /\ ~(Top.k = 0 \/ Top.w = 0)
    /\ ~Calculated(Top.k, Top.w)
    /\ stack' = <<Frame(Top.k - 1, Top.w), [Top EXCEPT !.pc = "without"]>>
                    \o Tail(stack)
    /\ UNCHANGED <<file, mayFail, fed, evlog, result, promise, reason, outcome, phase,
                   items, maxWeight, costBoard, ret, cost, weight, i, itemsIndex,
                   picked, writes, solved>>

\* the weight test left out: every item is tried
AlwaysFits(itemWeight, packageWeight) == TRUE

\* line 221: itemWeight <= packageWeight
Fits(itemWeight, packageWeight) == itemWeight <= packageWeight * Scale

\* line 222: Math.round(packageWeight - itemWeight)
NewWeight(packageWeight, itemWeight) == Round(packageWeight * Scale - itemWeight)

\* calculatePackageCost, lines 213-229 and, when the item does not fit, 231-233
CalcWith ==
    /\ phase = "calc" /\ stack # <<>> /\ Top.pc = "without"
    /\ LET item == items[Top.k]   \* 1 <= k <= items.length: the item exists
       IN IF Fits(item.weight, Top.w)
          THEN /\ stack' = <<Frame(Top.k - 1, NewWeight(Top.w, item.weight)),
                             [Top EXCEPT !.pc = "with", !.costWithoutItem = ret]>>
                               \o Tail(stack)
               /\ UNCHANGED <<costBoard, writes, ret>>
          ELSE /\ costBoard' = Store(costBoard, Top.k, Top.w, Max(0, ret))
               /\ writes' = Counted(Top.k, Top.w)
               /\ ret' = Max(0, ret)
               /\ stack' = Tail(stack)
    /\ UNCHANGED <<file, mayFail, fed, evlog, result, promise, reason, outcome, phase,
                   items, maxWeight, cost, weight, i, itemsIndex, picked, solved>>

\* calculatePackageCost, lines 223 and 231-233, after the call with the item returned
CalcStore ==
    /\ phase = "calc" /\ stack # <<>> /\ Top.pc = "with"
    /\ LET costWithItem == items[Top.k].price + ret
           best == Max(costWithItem, Top.costWithoutItem)
       IN /\ costBoard' = Store(costBoard, Top.k, Top.w, best)
          /\ ret' = best
    /\ writes' = Counted(Top.k, Top.w)
    /\ stack' = Tail(stack)
    /\ UNCHANGED <<file, mayFail, fed, evlog, result, promise, reason, outcome, phase,
                   items, maxWeight, cost, weight, i, itemsIndex, picked, solved>>

\* getPackagedItemsIndex, lines 249-251
StartTrace ==
    /\ phase = "calc" /\ stack = <<>>
    /\ cost' = costBoard[<<Len(items), maxWeight>>]
    /\ weight' = maxWeight
    /\ itemsIndex' = <<>>
    /\ i' = Len(items)
    /\ phase' = "trace"
    /\ UNCHANGED <<file, mayFail, fed, evlog, result, promise, reason, outcome, items,
                   maxWeight, costBoard, stack, ret, picked, writes, solved>>

\* the price of a collected item is not deducted
CostKept(c, itemPrice) == c

\* line 268: cost -= itemPrice
RemainingCost(c, itemPrice) == c - itemPrice

\* Math.floor in place of Math.round
FlooredWeight(w, itemWeight) == (w * Scale - itemWeight) \div Scale

\* line 269: weight = Math.round(weight - itemWeight)
RemainingWeight(w, itemWeight) == Round(w * Scale - itemWeight)

\* line 257: cost !== prevItemCost, where prevItemCost = costBoard[k - 1][w]
Included(c, k, w) == ~Filled(k - 1, w) \/ c # costBoard[<<k - 1, w>>]

\* getPackagedItemsIndex, lines 253-271: one iteration of the loop
TraceStep ==
    /\ phase = "trace"
    /\ i > 0 /\ cost > 0
    /\ IF Included(cost, i, weight)
       THEN /\ itemsIndex' = Append(itemsIndex, items[i].index)
            /\ picked' = picked \cup {i}
            /\ cost' = RemainingCost(cost, items[i].price)
            /\ weight' = RemainingWeight(weight, items[i].weight)
       ELSE UNCHANGED <<itemsIndex, picked, cost, weight>>
    /\ i' = i - 1
    /\ UNCHANGED <<file, mayFail, fed, evlog, result, promise, reason, outcome, phase,
                   items, maxWeight, costBoard, stack, ret, writes, solved>>

\* the indices joined in the order the back-trace collected them
RenderUnsorted(idx) ==
    LET joined == JoinStrings(NumStrings(idx), <<",">>)
    IN IF joined = <<>> THEN <<"-">> ELSE joined

\* lines 274-276: itemsIndex.sort(...); itemsIndex.join(',') || '-'
Render(idx) ==
    LET joined == JoinStrings(NumStrings(SortNumbers(idx)), <<",">>)
    IN IF joined = <<>> THEN <<"-">> ELSE joined

\* getPackagedItemsIndex, lines 273-276, and the end of the 'line' handler, line 58
TraceEnd ==
    /\ phase = "trace"
    /\ ~(i > 0 /\ cost > 0)
    /\ result' = Append(result, Render(itemsIndex))
    /\ phase' = "idle"
    /\ solved' = TRUE
    /\ UNCHANGED <<file, mayFail, fed, evlog, promise, reason, outcome, items, maxWeight,
                   costBoard, stack, ret, cost, weight, i, itemsIndex, picked, writes>>

\* an Error whose name was not set
PlainError(message) == [kind |-> "throw", name |-> "Error", value |-> message]

\* src/unnamed/part_000: new APIException(message)
APIException(message) == [kind |-> "throw", name |-> "APIException", value |-> message]

\* readerStream.on('error'): readerStream.close(); reject(error.message)
OnError ==
    /\ Quiet
    /\ mayFail
    /\ ~Delivered("error")
    /\ evlog' = Append(evlog, "error")
    /\ IF promise = "pending"
       THEN promise' = "rejected" /\ reason' = ErrorMessage
       ELSE UNCHANGED <<promise, reason>>
    /\ UNCHANGED <<file, mayFail, fed, result, outcome>>
    /\ UNCHANGED engine

\* fileReader.on('close'): resolve(result). The reader closes when its input has
\* ended, or after the stream was closed by the 'error' handler.
OnClose ==
    /\ Quiet
    /\ ~Delivered("close")
    /\ file = <<>> \/ Delivered("error")
    /\ evlog' = Append(evlog, "close")
    /\ promise' = IF promise = "pending" THEN "resolved" ELSE promise
    /\ UNCHANGED <<file, mayFail, fed, result, reason, outcome>>
    /\ UNCHANGED engine

\* pack, lines 24-30, once the awaited promise is settled
PackResume ==
    /\ promise # "pending"
    /\ outcome = None
    /\ outcome' = IF promise = "resolved"
                  THEN [kind |-> "return", name |-> "",
                        value |-> JoinStrings(result, <<"\n">>)]
                  ELSE APIException(reason)
    /\ UNCHANGED <<file, mayFail, fed, evlog, result, promise, reason>>
    /\ UNCHANGED engine

Next ==
    \/ OnLine
    \/ CalcBase
    \/ CalcMemo
    \/ CalcWithout
    \/ CalcWith
    \/ CalcStore
    \/ StartTrace
    \/ TraceStep
    \/ TraceEnd
    \/ OnError
    \/ OnClose
    \/ PackResume

Spec == Init /\ [][Next]_vars

\* ================================================================ claims
RECURSIVE SumWeight(_)
\* total weight, in 1/Scale units, of the items at the sorted positions S
SumWeight(S) ==
    IF S = {} THEN 0
    ELSE LET p == CHOOSE q \in S : TRUE IN items[p].weight + SumWeight(S \ {p})

RECURSIVE SumPrice(_)
SumPrice(S) ==
    IF S = {} THEN 0
    ELSE LET p == CHOOSE q \in S : TRUE IN items[p].price + SumPrice(S \ {p})

Subsets == SUBSET (1..Len(items))
WithinCapacity(S) == SumWeight(S) <= maxWeight * Scale
MaxCost(S) == WithinCapacity(S) /\ \A T \in Subsets : WithinCapacity(T) => SumPrice(T) <= SumPrice(S)

LastResult == result[Len(result)]
LastLine == fed[Len(fed)]
Sentinel == <<"-">>

RECURSIVE SplitOn(_, _)
\* the pieces of str between the occurrences of the character ch
SplitOn(str, ch) ==
    IF \A k \in DOMAIN str : str[k] # ch THEN <<str>>
    ELSE LET p == CHOOSE k \in DOMAIN str :
                     str[k] = ch /\ \A j \in 1..(k - 1) : str[j] # ch
         IN <<SubSeq(str, 1, p - 1)>> \o SplitOn(SubSeq(str, p + 1, Len(str)), ch)

DigitOf(ch) == CHOOSE d \in 0..9 : Digits[d + 1] = ch

RECURSIVE DecValue(_)
\* the number a string of decimal digits denotes
DecValue(str) ==
    IF str = <<>> THEN 0
    ELSE 10 * DecValue(SubSeq(str, 1, Len(str) - 1)) + DigitOf(str[Len(str)])

\* the numbers listed in the last rendered result
Listed ==
    LET parts == SplitOn(LastResult, ",")
    IN [k \in DOMAIN parts |-> DecValue(parts[k])]

Occurs(seq, v) == Cardinality({k \in DOMAIN seq : seq[k] = v})

\* L lists the index of every collected item, once per collected item
ListsPicked(L) ==
    /\ Len(L) = Cardinality(picked)
    /\ \A p \in picked :
          Occurs(L, items[p].index)
            = Cardinality({q \in picked : items[q].index = items[p].index})

\* C1 (Optimality): once a package is solved, no subset of its items whose total
\* unrounded weight is within the capacity costs strictly more than the returned
\* subset.  The program rounds the remaining budget at every subtraction, and a
\* budget rounded down hides room that is there.
C1_Optimality ==
    solved => \A S \in Subsets : WithinCapacity(S) => SumPrice(S) <= SumPrice(picked)

\* C2 (Tie-break): once a package is solved and the returned subset is one of the
\* maximum-cost subsets within capacity, it is no heavier than any other
\* maximum-cost subset within capacity.
C2_TieBreak ==
    solved /\ MaxCost(picked)
        => \A S \in Subsets : MaxCost(S) => SumWeight(picked) <= SumWeight(S)

\* C3 (Feasibility): once a package is solved, the unrounded weights of the
\* returned items sum to at most the capacity.
C3_Feasibility == solved => WithinCapacity(picked)

\* the cases of C4, read off the line as it was emitted
BadCapacity(line) == line.weight.nan \/ line.weight.val <= 0
NoItems(line) == \A k \in DOMAIN line.items : line.items[k].empty
IsItem(str) == ~str.empty
TooHeavyAlone(line) ==
    /\ ~BadCapacity(line)
    /\ LET strs == SelectSeq(line.items, IsItem)
       IN /\ Len(strs) = 1
          /\ ~strs[1].index.nan /\ ~strs[1].weight.nan /\ ~strs[1].price.nan
          /\ strs[1].weight.val > line.weight.val * Scale

\* C4 (Degenerate cases): a line whose capacity is 0, negative or non-numeric, a
\* line without items, and a line whose only item is heavier than the capacity
\* each select nothing and are rendered as "-".
C4_Degenerate ==
    solved /\ (BadCapacity(LastLine) \/ NoItems(LastLine) \/ TooHeavyAlone(LastLine))
        => picked = {} /\ LastResult = Sentinel

\* a line whose only item is too heavy has gone through the recursion and the
\* back-trace and was rendered
C4_Witness ==
    /\ solved
    /\ TooHeavyAlone(LastLine)
    /\ Len(items) = 1 /\ maxWeight >= 1
    /\ LastResult = Sentinel

\* C5 (Failure on unreadable source), as claimed: once the stream has emitted an
\* error, pack has not returned a result string, whatever was delivered before.
C5_ErrorNeverReturns == Delivered("error") => outcome.kind # "return"

\* C5, amended: when the stream's error is delivered before any 'close', the promise
\* is rejected and pack ends only by throwing an APIException carrying the error's
\* message, whatever 'line' and 'close' events follow; when 'close' came first,
\* pack ends only by returning, and the later error changes nothing.
C5_ErrorFirstFails ==
    /\ (evlog # <<>> /\ evlog[1] = "error")
          => /\ promise = "rejected"
             /\ outcome \in {None, [kind |-> "throw", name |-> "APIException",
                                    value |-> ErrorMessage]}
             /\ (phase # "idle" => outcome # None)
    /\ (evlog # <<>> /\ evlog[1] = "close")
          => promise = "resolved" /\ outcome.kind \in {"none", "return"}

\* the error came first, lines and a close were delivered around it, and pack threw
C5_Witness ==
    /\ evlog = <<"error", "close">>
    /\ outcome.kind = "throw"
    /\ Len(result) >= 2

\* C6 (Output canonicalization), as claimed: the rendered result is "-" exactly
\* when nothing was collected, and otherwise lists the index of every collected
\* item once, in strictly ascending order.
C6_StrictlyAscending ==
    solved =>
        /\ (LastResult = Sentinel) <=> (picked = {})
        /\ (picked # {} /\ LastResult # Sentinel) =>
              /\ ListsPicked(Listed)
              /\ \A k \in 1..(Len(Listed) - 1) : Listed[k] < Listed[k + 1]

PairwiseDistinct ==
    \A p, q \in 1..Len(items) : items[p].index = items[q].index => p = q

\* C6, amended: the rendered result is "-" exactly when nothing was collected, and
\* otherwise lists the index of every collected item once per collected item in
\* ascending order: strictly ascending when the indices of the line's items are
\* pairwise distinct, with equal indices next to each other otherwise.
C6_Ascending ==
    solved =>
        /\ (LastResult = Sentinel) <=> (picked = {})
        /\ (picked # {} /\ LastResult # Sentinel) =>
              /\ ListsPicked(Listed)
              /\ \A k \in 1..(Len(Listed) - 1) : Listed[k] <= Listed[k + 1]
              /\ PairwiseDistinct =>
                    \A k \in 1..(Len(Listed) - 1) : Listed[k] < Listed[k + 1]

\* two items were collected in descending index order and rendered ascending
C6_Witness ==
    /\ solved
    /\ Len(itemsIndex) >= 2
    /\ itemsIndex[1] > itemsIndex[2]
    /\ PairwiseDistinct
    /\ Listed = SortNumbers(itemsIndex)

RECURSIVE CostAlone(_, _, _)
\* the recurrence of calculatePackageCost evaluated on its arguments alone,
\* with no board
CostAlone(its, k, w) ==
    IF k = 0 \/ w = 0 THEN 0
    ELSE LET without == CostAlone(its, k - 1, w)
             with == IF its[k].weight <= w * Scale
                     THEN its[k].price
                            + CostAlone(its, k - 1, Round(w * Scale - its[k].weight))
                     ELSE 0
         IN IF with >= without THEN with ELSE without

RECURSIVE WalkAlone(_, _, _, _)
\* the indices the back-trace collects when every cell it reads holds CostAlone
WalkAlone(its, k, w, c) ==
    IF k = 0 \/ c <= 0 THEN <<>>
    ELSE IF c # CostAlone(its, k - 1, w)
         THEN <<its[k].index>>
                \o WalkAlone(its, k - 1, Round(w * Scale - its[k].weight), c - its[k].price)
         ELSE WalkAlone(its, k - 1, w, c)

\* the result of a line as a function of the line and of nothing else
Alone(line) ==
    LET pkg == parseFileLine(line)
        its == SortByWeight(pkg.items)
    IN Render(WalkAlone(its, Len(its), pkg.weight, CostAlone(its, Len(its), pkg.weight)))

\* C7 (Instance independence and determinism): the result of every line is the
\* function Alone of that line, whatever lines were solved before it in the same
\* call of pack, so that equal lines have equal results; results are appended in
\* the order of the lines; and when pack returns, every line of the file has its
\* result and the k-th line of the output is the result of the k-th line of the file.
C7_Independent ==
    /\ Len(result) <= Len(fed)
    /\ \A k \in 1..Len(result) : result[k] = Alone(fed[k])
    /\ \A a, b \in 1..Len(result) : fed[a] = fed[b] => result[a] = result[b]
    /\ phase = "idle" => Len(result) = Len(fed)
    /\ outcome.kind = "return" =>
          /\ file = <<>>
          /\ Len(result) = Len(fed)
          /\ LET out == SplitOn(outcome.value, "\n")
             IN /\ result # <<>> => Len(out) = Len(result)
                /\ \A k \in 1..Len(result) : out[k] = result[k]

\* the same line was solved before and after a line with another result, and pack
\* returned the three results
C7_Witness ==
    /\ outcome.kind = "return"
    /\ Len(fed) = 3
    /\ fed[1] = fed[3]
    /\ result[1] # result[2]
    /\ result[1] # Sentinel

\* a request at the top of the stack during the recursion
Requested(k, w) ==
    phase = "calc" /\ stack # <<>> /\ Top.pc = "enter" /\ Top.k = k /\ Top.w = w

\* C8 (Memoization), as claimed: during the recursion a cell that has been
\* assigned is never assigned again, and a request for it returns the stored value
\* without a recursive call.
C8_EveryCellOnce ==
    [][phase = "calc" /\ stack # <<>> =>
          \A c \in DOMAIN costBoard :
              /\ writes'[c] = writes[c]
              /\ costBoard'[c] = costBoard[c]
              /\ Requested(c[1], c[2]) => stack' = Tail(stack) /\ ret' = costBoard[c]
      ]_vars

\* C8, amended: a cell (k, w) with k >= 1 and w >= 1 is assigned at most once, and
\* after that a request for it returns the stored value without a recursive call
\* and without an assignment.  A base cell (k = 0 or w = 0) is assigned 0 again on
\* every request, without a recursive call, so its value never changes either.
C8_MemoOnce ==
    [][phase = "calc" /\ stack # <<>> =>
          \A c \in DOMAIN costBoard :
              /\ costBoard'[c] = costBoard[c]
              /\ (c[1] >= 1 /\ c[2] >= 1) => writes[c] = 1 /\ writes'[c] = 1
              /\ (c[1] = 0 \/ c[2] = 0) => costBoard[c] = 0
              /\ Requested(c[1], c[2]) =>
                    /\ stack' = Tail(stack)
                    /\ ret' = costBoard[c]
                    /\ writes'[c] = IF c[1] >= 1 /\ c[2] >= 1 THEN 1 ELSE writes[c] + 1
      ]_vars

\* a cell that was computed by the recurrence is requested again
C8_Witness ==
    \E c \in DOMAIN costBoard :
        /\ c[1] >= 1 /\ c[2] >= 1
        /\ costBoard[c] >= 1
        /\ Requested(c[1], c[2])

====
